---------------------------- MODULE Spec2Model ----------------------------
(***************************************************************************)
(* MaiBot Telegram adapter: the sliding-window deduper (src/src/utils.py), *)
(* the long-poll loop with its bootstrap (src/main.py) and the resolution   *)
(* of the destination chat of an outbound message                           *)
(* (src/src/send_handler/main_send_handler.py).                             *)
(*                                                                         *)
(* Three specifications share the variables; each one moves only its own   *)
(* group and leaves the others at their initial value:                     *)
(*   SpecDedup  a SlidingWindowDeduper under arbitrary seen_or_add calls    *)
(*   Spec       telegram_poll_loop against an arbitrary remote              *)
(*   SpecSend   SendHandler.send_normal_message resolving its chat_id       *)
(***************************************************************************)
EXTENDS Integers, Sequences, FiniteSets

(***************************************************************************)
(* Bounds of the model.                                                    *)
(***************************************************************************)
\* update ids (and deduper keys) are drawn from 1..MaxUid
MaxUid == 3
\* configured window sizes are drawn from -1..MaxWindow
MaxWindow == 2
\* number of seen_or_add calls explored by SpecDedup
MaxCalls == 5
\* number of entries in the response to the bootstrap fetch
MaxBatch == 3
\* number of entries the for loop of the poll loop takes, all batches together
MaxUpdates == 3
\* number of getUpdates calls made by the while loop
MaxPolls == 2
\* chat, group and user ids are built from the numbers 0..MaxChat
MaxChat == 2
\* capacity of the message-chat index: _MESSAGE_CHAT_INDEX_LIMIT, which is
\* 20000 in runtime_state.py:6, scaled down so that eviction is reached
MESSAGE_CHAT_INDEX_LIMIT == 2
\* message ids are drawn from 1..MaxMsg
MaxMsg == 3
\* number of record_message calls explored by SpecState
MaxRecords == 4
\* a message_segment has at most MaxLeaves segments that are no seglist
MaxLeaves == 3
\* a seglist has at most MaxKids children
MaxKids == 2
\* a description holds at most MaxWords phrases
MaxWords == 2
\* the text of a send_message call has at most MaxTextLen characters
MaxTextLen == 2

Uids == 1..MaxUid
WindowSizes == (0 - 1)..MaxWindow

\* Optional[int]: None is the empty sequence, the integer n is <<n>>
None == <<>>
Some(n) == <<n>>

Max2(a, b) == IF a >= b THEN a ELSE b

SetMax(S) == CHOOSE m \in S : \A x \in S : x <= m

Range(s) == {s[i] : i \in 1..Len(s)}

VARIABLES
    \* ---- SlidingWindowDeduper (shared by SpecDedup and Spec)
    dedup,        \* [window_size, keys, key_set]: the deduper object
    \* ---- SpecDedup: the calls made so far
    d_arg,        \* the window_size argument the deduper was constructed with
    d_calls,      \* number of seen_or_add calls made
    d_key,        \* key of the latest call
    d_ret,        \* value returned by the latest call
    d_log,        \* keys inserted so far (calls that returned False), in order
    \* ---- Spec: telegram_poll_loop
    pc,           \* where the coroutine is suspended or what it does next
    offset,       \* the local variable offset (Optional[int])
    taken,        \* number of entries the for loop has taken, all batches together
    cur,          \* uid of the update handle_update is running for (0: none)
    polls,        \* number of getUpdates calls of the while loop so far
    req_offset,   \* offset argument of the latest getUpdates call of the loop
    handled,      \* uid -> number of handler.handle_update invocations
    faulted,      \* uids for which handle_update raised an Exception
    seen,         \* every integer update_id read so far, bootstrap included
    boot_ids,     \* the integer update_ids read by the bootstrap
    prev_ids,     \* inside a batch: integer update_ids of the ok response before it
    cur_ids,      \* integer update_ids read from the latest ok response
    age,          \* uid -> insertions since its latest insertion (-1: never)
    ev,           \* what the loop did last
    \* ---- SpecSend: SendHandler.send_normal_message
    s_pc,         \* "start", then where send_normal_message got to
    msg,          \* the outbound message and whether a sender is installed
    chat_id,      \* the local variable chat_id (line 37)
    dest,         \* the local variable normalized_chat_id (line 48)
    seg,          \* raw_message_base.message_segment
    reply_cfg,    \* additional_config["reply_message_id"] when that is a dict
    reply_to,     \* the local variable reply_to (lines 52 and 66)
    payloads,     \* the local variable payloads (line 55)
    s_i,          \* position of the for loop of line 61 in payloads
    sent_count,   \* the local variable sent_count
    calls,        \* the sends issued so far: [type, data, reply], in order
    \* ---- TelegramRuntimeState (src/src/runtime_state.py)
    bot_id,       \* self.bot_id (Optional[int])
    index,        \* self._message_chat_index: its keys (chat_id, message_id), oldest first
    last_private, \* self._last_private_chat_id (Optional[int])
    \* ---- SpecState: the calls made so far
    r_log,        \* keys (chat_id, message_id) of the record_message calls so far
    r_type,       \* chat_type of the latest record_message call
    \* ---- SpecClient: TelegramClient.send_message (src/src/telegram_client.py)
    c_pc,         \* "start", "retry" (before the form request), "returned", "raised"
    c_text,       \* the argument text
    c_reply,      \* the argument reply_to (Optional[int])
    c_reqs,       \* the sendMessage requests posted so far, in order
    c_bodies,     \* the response bodies received for them, in order
    c_first,      \* the local variable first_data
    c_ret         \* the payload send_message returned

dedupVars == <<d_arg, d_calls, d_key, d_ret, d_log>>

pollVars == <<pc, offset, taken, cur, polls, req_offset, handled, faulted, seen,
              boot_ids, prev_ids, cur_ids, age, ev>>

sendVars == <<s_pc, msg, chat_id, dest, seg, reply_cfg, reply_to, payloads, s_i,
              sent_count, calls>>

stateVars == <<bot_id, index, last_private, r_log, r_type>>

clientVars == <<c_pc, c_text, c_reply, c_reqs, c_bodies, c_first, c_ret>>

vars == <<dedup, dedupVars, pollVars, sendVars, stateVars, clientVars>>

\* what the actions of one specification leave alone
notDedup == <<pollVars, sendVars, stateVars, clientVars>>
notPoll == <<dedupVars, sendVars, stateVars, clientVars>>
notSend == <<dedup, dedupVars, pollVars, stateVars, clientVars>>
notState == <<dedup, dedupVars, pollVars, sendVars, clientVars>>
notClient == <<dedup, dedupVars, pollVars, sendVars, stateVars>>

(***************************************************************************)
(* SlidingWindowDeduper, src/src/utils.py:9-24                             *)
(***************************************************************************)
\* __init__ without the clamp (window_size stored as given)
DeduperNewUnclamped(window_size) ==
    [window_size |-> window_size, keys |-> <<>>, key_set |-> {}]

\* __init__: _window_size = max(1, int(window_size)), empty deque and set
DeduperNew(window_size) ==
    [window_size |-> Max2(1, window_size), keys |-> <<>>, key_set |-> {}]

\* deque(maxlen=n).append(x): a full deque drops its leftmost element
DequeAppend(q, x, maxlen) ==
    IF Len(q) >= maxlen THEN Append(Tail(q), x) ELSE Append(q, x)

\* the value seen_or_add returns: key in self._key_set
SeenRet(d, key) == key \in d.key_set

\* seen_or_add that refreshes the position of a key it finds (LRU)
SeenOrAddRefresh(d, key) ==
    IF key \in d.key_set
    THEN [d EXCEPT !.keys = Append(SelectSeq(d.keys, LAMBDA x : x # key), key)]
    ELSE LET full == Len(d.keys) = d.window_size
             evicted == IF full THEN {d.keys[1]} ELSE {}
         IN  [d EXCEPT !.keys = DequeAppend(d.keys, key, d.window_size),
                       !.key_set = (d.key_set \cup {key}) \ evicted]

\* seen_or_add that forgets to discard the evicted key from the set
SeenOrAddNoDiscard(d, key) ==
    IF key \in d.key_set
    THEN d
    ELSE [d EXCEPT !.keys = DequeAppend(d.keys, key, d.window_size),
                   !.key_set = d.key_set \cup {key}]

\* seen_or_add: the deduper after the call
SeenOrAdd(d, key) ==
    IF key \in d.key_set
    THEN d
    ELSE LET full == Len(d.keys) = d.window_size
             evicted == IF full THEN {d.keys[1]} ELSE {}
         IN  [d EXCEPT !.keys = DequeAppend(d.keys, key, d.window_size),
                       !.key_set = (d.key_set \cup {key}) \ evicted]

\* the variables of a specification that is not running
PollIdle ==
    /\ pc = "idle"
    /\ offset = None
    /\ taken = 0
    /\ cur = 0
    /\ polls = 0
    /\ req_offset = None
    /\ handled = [u \in Uids |-> 0]
    /\ faulted = {}
    /\ seen = {}
    /\ boot_ids = {}
    /\ prev_ids = {}
    /\ cur_ids = {}
    /\ age = [u \in Uids |-> 0 - 1]
    /\ ev = "none"

SendIdle ==
    /\ s_pc = "idle"
    /\ msg = <<>>
    /\ chat_id = <<>>
    /\ dest = <<>>
    /\ seg = <<>>
    /\ reply_cfg = <<>>
    /\ reply_to = None
    /\ payloads = <<>>
    /\ s_i = 0
    /\ sent_count = 0
    /\ calls = <<>>

DedupIdle ==
    /\ d_arg = 0
    /\ d_calls = 0
    /\ d_key = 0
    /\ d_ret = FALSE
    /\ d_log = <<>>

\* no send_message call is in progress
ClientIdle ==
    /\ c_pc = "idle"
    /\ c_text = "none"
    /\ c_reply = None
    /\ c_reqs = <<>>
    /\ c_bodies = <<>>
    /\ c_first = <<>>
    /\ c_ret = <<>>

\* TelegramRuntimeState.__init__, lines 8-11; no call made
StateIdle ==
    /\ bot_id = None
    /\ index = <<>>
    /\ last_private = None
    /\ r_log = <<>>
    /\ r_type = "none"

(***************************************************************************)
(* SpecDedup: one deduper, any window size, any sequence of calls.         *)
(***************************************************************************)
InitDedup ==
    /\ d_arg \in WindowSizes
    /\ dedup = DeduperNew(d_arg)
    /\ d_calls = 0
    /\ d_key = 0
    /\ d_ret = FALSE
    /\ d_log = <<>>
    /\ PollIdle
    /\ SendIdle
    /\ StateIdle
    /\ ClientIdle

CallSeenOrAdd(key) ==
    /\ d_calls < MaxCalls
    /\ d_calls' = d_calls + 1
    /\ d_key' = key
    /\ d_ret' = SeenRet(dedup, key)
    /\ dedup' = SeenOrAdd(dedup, key)
    /\ d_log' = IF SeenRet(dedup, key) THEN d_log ELSE Append(d_log, key)
    /\ UNCHANGED <<d_arg, notDedup>>

NextDedup == \E key \in Uids : CallSeenOrAdd(key)

(***************************************************************************)
(* C6  seen_or_add(key) returns true exactly when key is in the ordered     *)
(* window; a hit leaves the deduper unchanged (order included); a miss      *)
(* appends key, dropping the oldest key when the window was full.           *)
(***************************************************************************)
SeenOrAddContract ==
    [][d_calls' = d_calls + 1 =>
        LET k == d_key'
            full == Len(dedup.keys) = dedup.window_size
            kept == IF full THEN Tail(dedup.keys) ELSE dedup.keys
        IN  /\ d_ret' = (\E i \in 1..Len(dedup.keys) : dedup.keys[i] = k)
            /\ d_ret' => dedup' = dedup
            /\ ~d_ret' => /\ dedup'.keys = Append(kept, k)
                          /\ dedup'.key_set = Range(kept) \cup {k}
                          /\ dedup'.window_size = dedup.window_size]_vars

\* a hit on a key that is not the newest one, after an eviction has happened
SeenOrAddContractWitness ==
    /\ d_ret
    /\ Len(d_log) > dedup.window_size
    /\ Len(dedup.keys) >= 2
    /\ d_key = dedup.keys[1]

(***************************************************************************)
(* C7  seen_or_add(k) returns true iff k is among the N most recent         *)
(* distinct keys inserted before the call (N the capacity); after N+1       *)
(* distinct keys were inserted the first one is no longer seen.             *)
(***************************************************************************)
Capacity(window_size) == IF window_size < 1 THEN 1 ELSE window_size

RECURSIVE LastDistinct(_, _, _)
LastDistinct(log, n, acc) ==
    IF log = <<>> \/ Cardinality(acc) >= n
    THEN acc
    ELSE LastDistinct(SubSeq(log, 1, Len(log) - 1), n, acc \cup {log[Len(log)]})

DedupWindowCharacterised ==
    [][d_calls' = d_calls + 1 =>
        LET n == Capacity(d_arg)
        IN  /\ d_ret' = (d_key' \in LastDistinct(d_log, n, {}))
            /\ (Len(d_log) = n + 1 /\ Cardinality(Range(d_log)) = n + 1
                    /\ d_key' = d_log[1]) => ~d_ret']_vars

\* the first of N+1 distinct inserted keys was asked for again and not seen
DedupWindowCharacterisedWitness ==
    /\ Capacity(d_arg) >= 2
    /\ Len(d_log) = Capacity(d_arg) + 2
    /\ Cardinality(Range(d_log)) = Capacity(d_arg) + 1
    /\ d_key = d_log[1]
    /\ ~d_ret

(***************************************************************************)
(* C8  the deduper holds at most N = max(1, window_size) keys, N fixed at   *)
(* construction; the ordered window has no duplicate and the membership set *)
(* is exactly the set of keys of the ordered window.                        *)
(***************************************************************************)
DedupCapacityInvariant ==
    LET n == Capacity(d_arg)
    IN  /\ dedup.window_size = n
        /\ Len(dedup.keys) <= n
        /\ Cardinality(dedup.key_set) <= n
        /\ \A i, j \in 1..Len(dedup.keys) : dedup.keys[i] = dedup.keys[j] => i = j
        /\ dedup.key_set = Range(dedup.keys)

\* a clamped window (size below 1) that is full and has already evicted a key
DedupCapacityWitness ==
    /\ d_arg < 1
    /\ Len(d_log) >= 2
    /\ Len(dedup.keys) = 1

SpecDedup == InitDedup /\ [][NextDedup]_vars


(***************************************************************************)
(* The remote's answers.  An entry of "result" is a JSON object whose      *)
(* update_id is an integer (k = "int"), a numeric string ("str"), absent   *)
(* or null ("none"), a string that is no number ("bad") or a number that   *)
(* overflows to the float inf, such as 1e400 ("inf"); or it is no JSON     *)
(* object at all ("nondict").                                              *)
(***************************************************************************)
RawUpdates ==
    [k : {"int", "str"}, v : Uids]
        \cup [k : {"none", "bad", "inf", "nondict"}, v : {0}]

RECURSIVE SeqsUpTo(_, _)
SeqsUpTo(S, n) ==
    IF n = 0 THEN {<<>>}
    ELSE LET shorter == SeqsUpTo(S, n - 1)
         IN  shorter \cup {Append(b, x) : b \in {c \in shorter : Len(c) = n - 1}, x \in S}

\* Python's int(x): the integer, or the exception raised
PyInt(raw) ==
    CASE raw.k \in {"int", "str"} -> [exc |-> "none", v |-> raw.v]
      [] raw.k = "none" -> [exc |-> "TypeError", v |-> 0]
      [] raw.k = "bad" -> [exc |-> "ValueError", v |-> 0]
      [] raw.k = "inf" -> [exc |-> "OverflowError", v |-> 0]

\* lines 37-41 of the bootstrap for one entry: "ok" with the uid, "skip"
\* (continue) or "raise" (an exception leaves _bootstrap_poll_offset)
BootParseUid(upd) ==
    IF upd.k = "nondict" THEN [out |-> "raise", v |-> 0]
    ELSE LET r == PyInt(upd)
         IN  CASE r.exc = "none" -> [out |-> "ok", v |-> r.v]
               [] r.exc \in {"TypeError", "ValueError"} -> [out |-> "skip", v |-> 0]
               [] OTHER -> [out |-> "raise", v |-> 0]

\* lines 73-81 of the poll loop for one entry: "ok" with the uid, "skip"
\* (continue) or "raise" (an exception reaches the except of line 100)
PollParseUid(upd) ==
    IF upd.k = "nondict" THEN [out |-> "raise", v |-> 0]
    ELSE IF upd.k = "none" THEN [out |-> "skip", v |-> 0]
    ELSE LET r == PyInt(upd)
         IN  CASE r.exc = "none" -> [out |-> "ok", v |-> r.v]
               [] r.exc \in {"TypeError", "ValueError"} -> [out |-> "skip", v |-> 0]
               [] OTHER -> [out |-> "raise", v |-> 0]

\* line 60: the window size the poll loop hands to the deduper
DedupWindow(update_dedup_window, dedup_window) ==
    IF update_dedup_window > 0 THEN update_dedup_window ELSE dedup_window

\* history: an insertion of u ages every other key by one, up to n
AgeInsert(a, u, n) ==
    [v \in Uids |-> IF v = u THEN 0
                    ELSE IF a[v] < 0 THEN a[v]
                    ELSE IF a[v] >= n THEN n ELSE a[v] + 1]

\* lines 84-85 with the max forgotten
AdvanceOffsetNoMax(off, uid) == Some(uid + 1)

\* lines 84-85 not executed
AdvanceOffsetSkipped(off, uid) == off

\* lines 84-85: offset = next_offset if offset is None else max(offset, next_offset)
AdvanceOffset(off, uid) ==
    IF off = None THEN Some(uid + 1) ELSE Some(Max2(off[1], uid + 1))

\* line 87 with the result of seen_or_add ignored
IsDuplicateNever(d, uid) == FALSE

\* line 87: the test of the if (the insertion is in SeenOrAdd)
IsDuplicate(d, uid) == SeenRet(d, uid)

\* line 43 left out: the bootstrap does not feed the deduper
BootSeedNone(d, uid) == d

\* line 43: seen_update_deduper.seen_or_add(uid)
BootSeed(d, uid) == SeenOrAdd(d, uid)

\* lines 34-44: the for loop of the bootstrap over the entries of result
RECURSIVE BootScan(_, _)
BootScan(batch, st) ==
    IF batch = <<>> THEN st
    ELSE LET p == BootParseUid(Head(batch))
             n == st.d.window_size
             ins == ~SeenRet(st.d, p.v)
         IN  CASE p.out = "raise" -> [st EXCEPT !.raised = TRUE]
               [] p.out = "skip" -> BootScan(Tail(batch), st)
               [] p.out = "ok" ->
                    BootScan(Tail(batch),
                        [st EXCEPT
                            !.d = BootSeed(st.d, p.v),
                            !.max = IF st.max = None THEN Some(p.v)
                                    ELSE Some(Max2(st.max[1], p.v)),
                            !.ids = st.ids \cup {p.v},
                            !.age = IF ins THEN AgeInsert(st.age, p.v, n) ELSE st.age])

(***************************************************************************)
(* Spec: telegram_poll_loop, src/main.py:54-102.  pc is "boot" while the   *)
(* bootstrap fetch is awaited, "poll" at the getUpdates of line 66,        *)
(* "batch" inside the for loop, "handling" while handle_update is awaited, *)
(* "sleep1"/"sleep2" in the two backoff sleeps, "cancelled" after a        *)
(* CancelledError left the coroutine and "crashed" after another exception *)
(* left it.  The entries of a batch are chosen as the for loop reaches     *)
(* them.                                                                   *)
(***************************************************************************)
Init ==
    /\ \E udw \in 0..MaxWindow, dw \in WindowSizes :
            dedup = DeduperNew(DedupWindow(udw, dw))
    /\ DedupIdle
    /\ ClientIdle
    /\ SendIdle
    /\ StateIdle
    /\ pc = "boot"
    /\ offset = None
    /\ taken = 0
    /\ cur = 0
    /\ polls = 0
    /\ req_offset = None
    /\ handled = [u \in Uids |-> 0]
    /\ faulted = {}
    /\ seen = {}
    /\ boot_ids = {}
    /\ prev_ids = {}
    /\ cur_ids = {}
    /\ age = [u \in Uids |-> 0 - 1]
    /\ ev = "none"

\* ---- _bootstrap_poll_offset, lines 16-51 (called at line 62)

\* lines 22-24: get_updates raised an exception other than CancelledError
BootFetchRaises ==
    /\ pc = "boot"
    /\ pc' = "poll"
    /\ offset' = None
    /\ ev' = "boot_exc"
    /\ UNCHANGED <<dedup, notPoll, taken, cur, polls, req_offset, handled, faulted, seen,
                   boot_ids, prev_ids, cur_ids, age>>

\* lines 26-28: the response is a JSON object whose "ok" is false or absent
BootNotOk ==
    /\ pc = "boot"
    /\ pc' = "poll"
    /\ offset' = None
    /\ ev' = "boot_notok"
    /\ UNCHANGED <<dedup, notPoll, taken, cur, polls, req_offset, handled, faulted, seen,
                   boot_ids, prev_ids, cur_ids, age>>

\* line 26: the response body is JSON but no object; resp.get raises
\* AttributeError outside the try, which leaves telegram_poll_loop at line 62
BootNonDict ==
    /\ pc = "boot"
    /\ pc' = "crashed"
    /\ ev' = "boot_raised"
    /\ UNCHANGED <<dedup, notPoll, offset, taken, cur, polls, req_offset, handled, faulted,
                   seen, boot_ids, prev_ids, cur_ids, age>>

\* lines 30-51: an ok response with the entries of batch
BootOk(batch) ==
    /\ pc = "boot"
    /\ LET st == BootScan(batch, [d |-> dedup, max |-> None, ids |-> {}, age |-> age,
                                  raised |-> FALSE])
       IN  /\ dedup' = st.d
           /\ seen' = st.ids
           /\ boot_ids' = st.ids
           /\ age' = st.age
           /\ IF st.raised
              THEN /\ pc' = "crashed"
                   /\ offset' = offset
                   /\ ev' = "boot_raised"
              ELSE /\ pc' = "poll"
                   /\ offset' = IF st.max = None THEN None ELSE Some(st.max[1] + 1)
                   /\ ev' = IF st.max = None THEN "boot_none" ELSE "boot_ok"
    /\ UNCHANGED <<notPoll, taken, cur, polls, req_offset, handled, faulted, prev_ids, cur_ids>>

\* any ok response of at most MaxBatch entries
BootOkAny ==
    /\ pc = "boot"
    /\ \E batch \in SeqsUpTo(RawUpdates, MaxBatch) : BootOk(batch)

\* the task is cancelled while the bootstrap fetch is awaited: CancelledError is
\* no Exception, line 22 does not catch it
BootCancelled ==
    /\ pc = "boot"
    /\ pc' = "cancelled"
    /\ ev' = "cancel"
    /\ UNCHANGED <<dedup, notPoll, offset, taken, cur, polls, req_offset, handled, faulted,
                   seen, boot_ids, prev_ids, cur_ids, age>>

\* ---- the while loop, lines 64-102

\* line 66 raises (transport failure, body that is no JSON), or the body is JSON
\* but no object and resp.get raises at line 67: lines 100-102
FetchRaises ==
    /\ pc = "poll"
    /\ polls < MaxPolls
    /\ polls' = polls + 1
    /\ req_offset' = offset
    /\ pc' = "sleep2"
    /\ cur_ids' = {}
    /\ prev_ids' = {}
    /\ ev' = "fetch_exc"
    /\ UNCHANGED <<dedup, notPoll, offset, taken, cur, handled, faulted, seen, boot_ids,
                   age>>

\* the response is not ok and the failure is treated as fatal
FetchNotOkFatal ==
    /\ pc = "poll"
    /\ polls < MaxPolls
    /\ polls' = polls + 1
    /\ req_offset' = offset
    /\ pc' = "crashed"
    /\ cur_ids' = {}
    /\ prev_ids' = {}
    /\ ev' = "fetch_notok"
    /\ UNCHANGED <<dedup, notPoll, offset, taken, cur, handled, faulted, seen,
                   boot_ids, age>>

\* lines 67-70: the response is not ok
FetchNotOk ==
    /\ pc = "poll"
    /\ polls < MaxPolls
    /\ polls' = polls + 1
    /\ req_offset' = offset
    /\ pc' = "sleep1"
    /\ cur_ids' = {}
    /\ prev_ids' = {}
    /\ ev' = "fetch_notok"
    /\ UNCHANGED <<dedup, notPoll, offset, taken, cur, handled, faulted, seen, boot_ids,
                   age>>

\* lines 66-71: an ok response; the for loop starts
FetchOk ==
    /\ pc = "poll"
    /\ polls < MaxPolls
    /\ polls' = polls + 1
    /\ req_offset' = offset
    /\ pc' = "batch"
    /\ UNCHANGED taken
    /\ prev_ids' = cur_ids
    /\ cur_ids' = {}
    /\ ev' = "fetch_ok"
    /\ UNCHANGED <<dedup, notPoll, offset, cur, handled, faulted, seen, boot_ids, age>>

\* the task is cancelled while getUpdates is awaited and a generic handler
\* swallows the CancelledError: the loop backs off and fetches again
FetchCancelledSwallowed ==
    /\ pc = "poll"
    /\ pc' = "sleep2"
    /\ ev' = "cancel"
    /\ UNCHANGED <<dedup, notPoll, offset, taken, cur, polls, req_offset, handled,
                   faulted, seen, boot_ids, prev_ids, cur_ids, age>>

\* the task is cancelled while getUpdates is awaited: lines 98-99
FetchCancelled ==
    /\ pc = "poll"
    /\ pc' = "cancelled"
    /\ ev' = "cancel"
    /\ UNCHANGED <<dedup, notPoll, offset, taken, cur, polls, req_offset, handled, faulted,
                   seen, boot_ids, prev_ids, cur_ids, age>>

\* lines 72-97 for the next entry of the batch, up to the await of line 92
ProcessUpdate(upd) ==
    /\ pc = "batch"
    /\ taken < MaxUpdates
    /\ taken' = taken + 1
    /\ LET p == PollParseUid(upd)
           n == dedup.window_size
       IN  CASE p.out = "raise" ->
                    /\ pc' = "sleep2"
                    /\ ev' = "abort"
                    /\ cur_ids' = {}
                    /\ prev_ids' = {}
                    /\ UNCHANGED <<dedup, offset, cur, handled, faulted, seen, age>>
             [] p.out = "skip" ->
                    /\ pc' = "batch"
                    /\ ev' = "skip"
                    /\ UNCHANGED <<dedup, offset, cur, handled, faulted, seen, cur_ids,
                                   prev_ids, age>>
             [] p.out = "ok" ->
                    /\ offset' = AdvanceOffset(offset, p.v)
                    /\ seen' = seen \cup {p.v}
                    /\ cur_ids' = cur_ids \cup {p.v}
                    /\ dedup' = SeenOrAdd(dedup, p.v)
                    /\ age' = IF SeenRet(dedup, p.v) THEN age ELSE AgeInsert(age, p.v, n)
                    /\ IF IsDuplicate(dedup, p.v)
                       THEN /\ pc' = "batch"
                            /\ ev' = "dup"
                            /\ UNCHANGED <<handled, faulted, cur>>
                       ELSE /\ pc' = "handling"
                            /\ ev' = "dispatch"
                            /\ cur' = p.v
                            /\ handled' = [handled EXCEPT ![p.v] = @ + 1]
                    /\ UNCHANGED <<prev_ids, faulted>>
    /\ UNCHANGED <<notPoll, polls, req_offset, boot_ids>>

\* the for loop is exhausted: back to line 66
BatchDone ==
    /\ pc = "batch"
    /\ pc' = "poll"
    /\ ev' = "batch_done"
    /\ UNCHANGED taken
    /\ prev_ids' = {}
    /\ UNCHANGED <<dedup, notPoll, offset, cur, polls, req_offset, handled, faulted,
                   seen, boot_ids, cur_ids, age>>

\* line 92 returns
HandlerReturns ==
    /\ pc = "handling"
    /\ pc' = "batch"
    /\ ev' = "handler_ok"
    /\ cur' = 0
    /\ UNCHANGED <<dedup, notPoll, offset, taken, polls, req_offset, handled, faulted,
                   seen, boot_ids, prev_ids, cur_ids, age>>

\* handle_update raised an Exception and no try of its own catches it: the
\* exception reaches line 100 and the rest of the batch is dropped
HandlerRaisesAborts ==
    /\ pc = "handling"
    /\ pc' = "sleep2"
    /\ ev' = "handler_exc"
    /\ cur' = 0
    /\ faulted' = faulted \cup {cur}
    /\ UNCHANGED <<dedup, notPoll, offset, taken, polls, req_offset, handled,
                   seen, boot_ids, prev_ids, cur_ids, age>>

\* lines 95-97: handle_update raised an Exception; the for loop goes on
HandlerRaises ==
    /\ pc = "handling"
    /\ pc' = "batch"
    /\ ev' = "handler_exc"
    /\ cur' = 0
    /\ faulted' = faulted \cup {cur}
    /\ UNCHANGED <<dedup, notPoll, offset, taken, polls, req_offset, handled,
                   seen, boot_ids, prev_ids, cur_ids, age>>

\* lines 93-94 and 98-99: the task is cancelled inside handle_update
HandlerCancelled ==
    /\ pc = "handling"
    /\ pc' = "cancelled"
    /\ ev' = "handler_cancel"
    /\ UNCHANGED <<dedup, notPoll, offset, taken, cur, polls, req_offset, handled, faulted,
                   seen, boot_ids, prev_ids, cur_ids, age>>

\* asyncio.sleep(1) of line 69 or asyncio.sleep(2) of line 102 returns
SleepDone ==
    /\ pc \in {"sleep1", "sleep2"}
    /\ pc' = "poll"
    /\ ev' = "slept"
    /\ UNCHANGED <<dedup, notPoll, offset, taken, cur, polls, req_offset, handled, faulted,
                   seen, boot_ids, prev_ids, cur_ids, age>>

\* the task is cancelled during a backoff sleep
SleepCancelled ==
    /\ pc \in {"sleep1", "sleep2"}
    /\ pc' = "cancelled"
    /\ ev' = "cancel"
    /\ UNCHANGED <<dedup, notPoll, offset, taken, cur, polls, req_offset, handled, faulted,
                   seen, boot_ids, prev_ids, cur_ids, age>>

Next ==
    \/ BootFetchRaises
    \/ BootNotOk
    \/ BootNonDict
    \/ BootOkAny
    \/ BootCancelled
    \/ FetchRaises
    \/ FetchNotOk
    \/ FetchOk
    \/ FetchCancelled
    \/ \E upd \in RawUpdates : ProcessUpdate(upd)
    \/ BatchDone
    \/ HandlerReturns
    \/ HandlerRaises
    \/ HandlerCancelled
    \/ SleepDone
    \/ SleepCancelled

Spec == Init /\ [][Next]_vars


(***************************************************************************)
(* Properties of the poll loop.                                            *)
(***************************************************************************)
\* by the history, u is among the N ids inserted last into the deduper
InWindow(u) == age[u] >= 0 /\ age[u] < dedup.window_size

\* the bootstrap has returned to the poll loop
Booted == pc \notin {"idle", "boot", "crashed"} \/ (pc = "cancelled" /\ ev # "cancel")

(***************************************************************************)
(* C1 (as stated)  handle_update is invoked at most once for each          *)
(* update_id, whatever the remote answers.                                 *)
(***************************************************************************)
AtMostOnceDispatch == \A u \in Uids : handled[u] <= 1

(***************************************************************************)
(* C1 (amended)  handle_update is invoked for an update_id only when that  *)
(* id is not among the N ids inserted last into the deduper: at most once  *)
(* for as long as the id stays in the dedup window.                        *)
(***************************************************************************)
AtMostOnceWhileInWindow ==
    [][\A u \in Uids : handled'[u] # handled[u] =>
            /\ handled'[u] = handled[u] + 1
            /\ ~InWindow(u)
            /\ InWindow(u)']_vars

\* the latest batch repeated an id that was handled once, and it was skipped
AtMostOnceWitness ==
    /\ ev = "dup"
    /\ \E u \in Uids : cur_ids = {u} /\ handled[u] = 1 /\ u \notin boot_ids

(***************************************************************************)
(* C2 (as stated)  when an ok response repeats an update_id u of the ok    *)
(* response before it, an already handled u is not dispatched again; u is  *)
(* dispatched on its first occurrence; from then on the offset is at least *)
(* u+1.                                                                    *)
(***************************************************************************)
RepeatHandledOnce ==
    /\ [](Booted => \A u \in seen : offset # None /\ offset[1] >= u + 1)
    /\ [][\A u \in Uids :
            /\ (u \in prev_ids /\ handled[u] >= 1) => handled'[u] = handled[u]
            /\ (pc = "batch" /\ u \notin seen /\ u \in seen') =>
                    handled'[u] = handled[u] + 1]_vars

(***************************************************************************)
(* C2 (amended)  as C2, but the repeat is skipped only while u is still in *)
(* the dedup window: u is dispatched again when N or more other ids were   *)
(* inserted since u was.                                                   *)
(***************************************************************************)
RepeatHandledOnceInWindow ==
    /\ [](Booted => \A u \in seen : offset # None /\ offset[1] >= u + 1)
    /\ [][\A u \in Uids :
            /\ (handled'[u] # handled[u] /\ u \in prev_ids) =>
                    age[u] >= dedup.window_size
            /\ (pc = "batch" /\ InWindow(u) /\ u \in prev_ids) =>
                    handled'[u] = handled[u]
            /\ (pc = "batch" /\ u \notin seen /\ u \in seen') =>
                    handled'[u] = handled[u] + 1]_vars

\* u was in two consecutive ok responses and has been handled once
RepeatHandledOnceWitness ==
    /\ ev = "dup"
    /\ \E u \in prev_ids \cap cur_ids : handled[u] = 1 /\ u \notin boot_ids

(***************************************************************************)
(* C3  once set, the offset is max(update_ids read so far) + 1; neither    *)
(* the offset nor the offset passed to getUpdates ever decreases.          *)
(***************************************************************************)
OffsetMonotone ==
    /\ [](offset # None => seen # {} /\ offset[1] = SetMax(seen) + 1)
    /\ [][/\ offset # None => offset' # None /\ offset'[1] >= offset[1]
          /\ req_offset # None =>
                req_offset' # None /\ req_offset'[1] >= req_offset[1]]_vars

\* an id below the maximum is being handled after a fetch with a set offset
OffsetMonotoneWitness ==
    /\ pc = "handling"
    /\ req_offset # None
    /\ cur < SetMax(seen)
    /\ offset = Some(SetMax(seen) + 1)
    /\ offset[1] > req_offset[1]

(***************************************************************************)
(* C4  while handle_update runs for update u the offset is already at      *)
(* least u+1, and the handler's return, exception or cancellation leaves   *)
(* the offset as it is.                                                    *)
(***************************************************************************)
OffsetAdvancedBeforeDispatch ==
    /\ [](pc = "handling" => offset # None /\ offset[1] >= cur + 1)
    /\ [][pc = "handling" => offset' = offset]_vars

\* the handler has raised for the largest id and the offset is past it
OffsetAdvancedWitness ==
    /\ ev \in {"handler_exc", "handler_cancel"}
    /\ offset = Some(MaxUid + 1)
    /\ handled[MaxUid] = 1

(***************************************************************************)
(* C5 (as stated)  no update_id read by the bootstrap is ever dispatched.  *)
(***************************************************************************)
BootstrapIdsNeverDispatched == \A u \in boot_ids : handled[u] = 0

(***************************************************************************)
(* C5 (amended)  every integer update_id of the bootstrap response is fed  *)
(* to the deduper, and one that is still in the dedup window is in the     *)
(* deduper and is not dispatched; it is dispatched by a later poll only    *)
(* after it has aged out of the window.                                    *)
(***************************************************************************)
BootstrapIdsSkippedInWindow ==
    /\ [](Booted => \A u \in boot_ids :
            /\ age[u] >= 0
            /\ InWindow(u) => u \in dedup.key_set
            /\ offset # None /\ offset[1] >= u + 1)
    /\ [][\A u \in boot_ids :
            handled'[u] # handled[u] => age[u] >= dedup.window_size]_vars

\* the remote replayed a bootstrap id and it was skipped
BootstrapIdsWitness ==
    /\ ev = "dup"
    /\ Cardinality(boot_ids) >= 2
    /\ \E u \in boot_ids : cur_ids = {u} /\ handled[u] = 0 /\ u < SetMax(boot_ids)

(***************************************************************************)
(* C9  _bootstrap_poll_offset returns max(integer update_ids) + 1, or None *)
(* when there is none; it never raises to the poll loop; entries without   *)
(* an integer update_id do not touch the deduper.                          *)
(***************************************************************************)
BootstrapResult ==
    /\ pc # "crashed"
    /\ (pc = "poll" /\ polls = 0) =>
            /\ offset = IF boot_ids = {} THEN None ELSE Some(SetMax(boot_ids) + 1)
            /\ dedup.key_set \subseteq boot_ids
            /\ Range(dedup.keys) \subseteq boot_ids

(***************************************************************************)
(* C17  an entry of a batch whose update_id is missing or does not convert *)
(* to an integer is skipped: the handler is not invoked, the offset and    *)
(* the deduper stay as they are, and the for loop goes on with the rest of *)
(* the batch.                                                              *)
(***************************************************************************)
MalformedUpdateSkipped ==
    [][(pc = "batch" /\ ev' \in {"skip", "abort"}) =>
            /\ handled' = handled
            /\ offset' = offset
            /\ dedup' = dedup
            /\ pc' = "batch"]_vars

(***************************************************************************)
(* C18  when handle_update raises an Exception the loop stays alive: the   *)
(* for loop goes on with the next entry of the same batch (or ends the     *)
(* batch and fetches again), offset and deduper are as the dispatch left   *)
(* them, and the faulted update_id is past the offset and is dispatched    *)
(* again only after it has left the dedup window.                          *)
(***************************************************************************)
HandlerFaultContained ==
    /\ [](ev = "handler_exc" =>
            /\ pc = "batch"
            /\ ENABLED BatchDone
            /\ taken < MaxUpdates => \A upd \in RawUpdates : ENABLED ProcessUpdate(upd))
    /\ [](\A u \in faulted : offset # None /\ offset[1] >= u + 1)
    /\ [][/\ (pc = "handling" /\ ev' = "handler_exc") =>
                /\ pc' = "batch"
                /\ cur \in faulted'
                /\ InWindow(cur) /\ cur \in dedup.key_set
                /\ offset' = offset /\ dedup' = dedup /\ handled' = handled
          /\ \A u \in faulted : handled'[u] # handled[u] => ~InWindow(u)]_vars

\* the handler raised for u, and a later update of the same batch is handled
HandlerFaultWitness ==
    /\ pc = "handling"
    /\ \E u \in faulted \cap cur_ids : cur # u /\ handled[u] = 1 /\ InWindow(u)

\* the places where the coroutine is suspended in an await
SuspensionPoints == {"boot", "poll", "handling", "sleep1", "sleep2"}

\* a CancelledError is delivered to the suspended coroutine
Cancellation == BootCancelled \/ FetchCancelled \/ HandlerCancelled \/ SleepCancelled

(***************************************************************************)
(* C19  a cancellation can be delivered at every suspension point          *)
(* (bootstrap fetch, long-poll fetch, handler call, backoff sleep); it     *)
(* always ends the loop, and after that no fetch is issued, no update is   *)
(* dispatched and nothing else changes.                                    *)
(***************************************************************************)
CancellationTerminates ==
    /\ [](pc \in SuspensionPoints => ENABLED Cancellation)
    /\ [][/\ ev' \in {"cancel", "handler_cancel"} /\ ev' # ev => pc' = "cancelled"
          /\ pc = "cancelled" =>
                /\ pc' = "cancelled"
                /\ polls' = polls /\ req_offset' = req_offset
                /\ handled' = handled /\ offset' = offset /\ dedup' = dedup]_vars

\* cancelled inside handle_update, after an earlier backoff and a second fetch
CancellationWitness ==
    /\ pc = "cancelled"
    /\ ev = "handler_cancel"
    /\ polls = MaxPolls
    /\ \E u \in Uids : handled[u] = 1 /\ cur = u

\* the positions of the while loop of lines 64-102
LoopStates == {"poll", "batch", "handling", "sleep1", "sleep2"}

(***************************************************************************)
(* C20  a long-poll fetch that raises an Exception or returns a response   *)
(* that is not ok dispatches nothing and leaves offset and deduper as they *)
(* are; the loop backs off (2 s after an exception, 1 s after a response   *)
(* that is not ok), and the fetch after the backoff carries the same       *)
(* offset; the while loop is left only by cancellation.                    *)
(***************************************************************************)
FetchFailureNotFatal ==
    /\ []((pc \in {"sleep1", "sleep2"} /\ ev \in {"fetch_exc", "fetch_notok"}) =>
            /\ offset = req_offset
            /\ ENABLED SleepDone)
    /\ []((pc = "poll" /\ polls < MaxPolls) =>
            ENABLED FetchOk /\ ENABLED FetchNotOk /\ ENABLED FetchRaises)
    /\ [][/\ (pc = "poll" /\ ev' \in {"fetch_exc", "fetch_notok"}) =>
                /\ pc' = (IF ev' = "fetch_exc" THEN "sleep2" ELSE "sleep1")
                /\ handled' = handled /\ offset' = offset /\ dedup' = dedup
                /\ taken' = taken
          /\ (pc \in {"sleep1", "sleep2"} /\ pc' # pc) =>
                /\ pc' \in {"poll", "cancelled"}
                /\ handled' = handled /\ offset' = offset /\ dedup' = dedup
          /\ polls' # polls => polls' = polls + 1 /\ req_offset' = offset
          /\ (pc \in LoopStates /\ pc' \notin LoopStates) => pc' = "cancelled"]_vars

\* the second fetch got a response that is not ok; it carried the offset the
\* loop still holds, and nothing was dispatched
FetchFailureWitness ==
    /\ pc = "sleep1"
    /\ ev = "fetch_notok"
    /\ polls = 2
    /\ handled = [u \in Uids |-> 0]
    /\ offset = req_offset
    /\ offset # None


(***************************************************************************)
(* SpecSend: SendHandler.send_normal_message,                              *)
(* src/src/send_handler/main_send_handler.py:24-49.                        *)
(*                                                                         *)
(* An id (telegram_chat_id, group_id, user_id) is an integer ("int"), a    *)
(* numeric string such as "12" ("str"), a string with a platform prefix    *)
(* such as "telegram:12" ("pfx"), a string that holds no number ("txt"),   *)
(* the empty string ("empty") or None ("none").  group_info and user_info  *)
(* may also be None themselves ("noinfo").  additional_config is absent or *)
(* falsy ("absent"), a truthy value that is no dict ("nondict"), or a dict *)
(* whose telegram_chat_id is the id hint ("none": no such key, or None).   *)
(***************************************************************************)
NoneId == [t |-> "none", v |-> 0]
NoInfo == [t |-> "noinfo", v |-> 0]
NoDest == [t |-> "nodest", v |-> 0]

RawIds ==
    [t : {"int", "str", "pfx"}, v : 0..MaxChat]
        \cup [t : {"txt", "empty", "none"}, v : {0}]

Configs ==
    [k : {"absent", "nondict"}, hint : {NoneId}] \cup [k : {"dict"}, hint : RawIds]

Messages ==
    [sender : BOOLEAN, cfg : Configs, group : RawIds \cup {NoInfo},
     user : RawIds \cup {NoInfo}]

\* Python truth value of group_info and group_info.group_id (user alike)
Truthy(id) ==
    CASE id.t = "int" -> id.v # 0
      [] id.t \in {"str", "pfx", "txt"} -> TRUE
      [] OTHER -> FALSE

\* _normalize_chat_id, lines 91-105
NormalizeChatId(raw) ==
    CASE raw.t \in {"str", "pfx"} -> [t |-> "int", v |-> raw.v]
      [] OTHER -> raw

\* lines 38-46 with the order the design document gives: group, hint, user
ResolveChatIdGroupFirst(m) ==
    IF Truthy(m.group) THEN m.group
    ELSE IF m.cfg.k = "dict" /\ m.cfg.hint # NoneId THEN m.cfg.hint
    ELSE IF Truthy(m.user) THEN m.user
    ELSE NoDest

\* lines 34-46 without the return of lines 44-46: chat_id stays None
ResolveChatIdNoReturn(m) ==
    IF m.cfg.k = "dict" /\ m.cfg.hint # NoneId THEN m.cfg.hint
    ELSE IF Truthy(m.group) THEN m.group
    ELSE IF Truthy(m.user) THEN m.user
    ELSE NoneId

\* lines 34-46: the chat_id chosen, or NoDest when line 46 returns
ResolveChatId(m) ==
    IF m.cfg.k = "dict" /\ m.cfg.hint # NoneId THEN m.cfg.hint
    ELSE IF Truthy(m.group) THEN m.group
    ELSE IF Truthy(m.user) THEN m.user
    ELSE NoDest

(***************************************************************************)
(* The message_segment.  A Seg is [type, data, kids]: a seglist keeps its  *)
(* children (Seg.data in the source) in kids; any other segment is a leaf  *)
(* with its data.  The leaves are two texts, an image and a reply segment  *)
(* (which names a reply target and is a type the dispatch does not send).  *)
(* Trees nest seglists two deep.                                           *)
(***************************************************************************)
Leaf(type, data) == [type |-> type, data |-> data, kids |-> <<>>]
SegList(kids) == [type |-> "seglist", data |-> 0, kids |-> kids]

Leaves == {Leaf("text", 1), Leaf("text", 2), Leaf("image", 1), Leaf("reply", 1)}

\* number of leaves of a seglist of leaves, or of a leaf
LeafCount(t) == IF t.type = "seglist" THEN Len(t.kids) ELSE 1

\* the children a seglist may have when n leaves are left to spend
Kids(n) ==
    {l \in Leaves : n >= 1}
        \cup {SegList(q) : q \in {r \in SeqsUpTo(Leaves, MaxKids) : Len(r) <= n}}

\* sequences of at most k children with at most n leaves in all
RECURSIVE Forest(_, _)
Forest(n, k) ==
    IF k = 0 THEN {<<>>}
    ELSE {<<>>} \cup UNION {{<<t>> \o f : f \in Forest(n - LeafCount(t), k - 1)} :
                                t \in Kids(n)}

Trees == Leaves \cup {SegList(f) : f \in Forest(MaxLeaves, MaxKids)}

\* additional_config["reply_message_id"]: absent or None, 0, a message id, or a
\* string that holds no number
ReplyRaws ==
    {NoneId, [t |-> "int", v |-> 0], [t |-> "int", v |-> 2], [t |-> "txt", v |-> 0]}

\* segment types send_normal_message has a send for, lines 64-78
SupportedTypes == {"text", "image", "imageurl", "voice", "videourl", "file", "emoji"}

\* _recursively_flatten, lines 125-132, reversing the children of a seglist
RECURSIVE FlattenReversed(_)
FlattenReversed(seg_data) ==
    IF seg_data.type = "seglist"
    THEN IF seg_data.kids = <<>> THEN <<>>
         ELSE FlattenReversed(SegList(Tail(seg_data.kids)))
                \o FlattenReversed(Head(seg_data.kids))
    ELSE <<seg_data>>

\* _recursively_flatten, lines 125-132
RECURSIVE RecursivelyFlatten(_)
RecursivelyFlatten(seg_data) ==
    IF seg_data.type = "seglist"
    THEN IF seg_data.kids = <<>> THEN <<>>
         ELSE RecursivelyFlatten(Head(seg_data.kids))
                \o RecursivelyFlatten(SegList(Tail(seg_data.kids)))
    ELSE <<seg_data>>

\* _walk of _extract_reply, lines 144-156: the first truthy reply id, depth first
RECURSIVE Walk(_)
Walk(s) ==
    IF s.type = "seglist"
    THEN IF s.kids = <<>> THEN None
         ELSE LET rid == Walk(Head(s.kids))
              IN  IF rid # None /\ rid[1] # 0 THEN rid
                  ELSE Walk(SegList(Tail(s.kids)))
    ELSE IF s.type = "reply" THEN Some(s.data)
    ELSE None

\* _extract_reply, lines 134-158, for a message whose additional_config is
\* absent or a dict: reply_message_id first, then the reply segments
ExtractReply(s, cfg, raw) ==
    LET reply_id == IF cfg.k = "dict" THEN raw ELSE NoneId
    IN  IF Truthy(reply_id)
        THEN IF reply_id.t \in {"int", "str"} THEN Some(reply_id.v) ELSE None
        ELSE Walk(s)

\* what SendHandler.send_normal_message was called with
SendInputs(ms, segs, raws) ==
    /\ msg \in ms
    /\ seg \in segs
    /\ reply_cfg \in raws
    /\ msg.cfg.k # "dict" => reply_cfg = NoneId

\* the locals of send_normal_message at its first line
SendStart ==
    /\ s_pc = "start"
    /\ chat_id = NoneId
    /\ dest = NoneId
    /\ reply_to = None
    /\ payloads = <<>>
    /\ s_i = 0
    /\ sent_count = 0
    /\ calls = <<>>

\* the inputs and what the dispatch loop keeps
sendIn == <<msg, seg, reply_cfg>>
loopVars == <<reply_to, payloads, s_i, sent_count, calls>>

InitSend ==
    /\ dedup = DeduperNew(1)
    /\ DedupIdle
    /\ ClientIdle
    /\ PollIdle
    /\ StateIdle
    /\ SendInputs(Messages, {Leaf("text", 1), Leaf("reply", 1), SegList(<<>>)},
                  {NoneId})
    /\ SendStart

\* lines 25-27: no sender is installed
SendNoSender ==
    /\ s_pc = "start"
    /\ ~msg.sender
    /\ s_pc' = "no_sender"
    /\ UNCHANGED <<sendIn, chat_id, dest, loopVars, notSend>>

\* lines 44-46: neither hint nor group nor user gives a chat_id
SendNoDestination ==
    /\ s_pc = "start"
    /\ msg.sender
    /\ ResolveChatId(msg) = NoDest
    /\ s_pc' = "no_dest"
    /\ UNCHANGED <<sendIn, chat_id, dest, loopVars, notSend>>

\* lines 37-49: chat_id is chosen and normalised
SendResolve ==
    /\ s_pc = "start"
    /\ msg.sender
    /\ ResolveChatId(msg) # NoDest
    /\ chat_id' = ResolveChatId(msg)
    /\ dest' = NormalizeChatId(ResolveChatId(msg))
    /\ s_pc' = "resolved"
    /\ UNCHANGED <<sendIn, loopVars, notSend>>

\* line 137: additional_config is truthy and no dict; additional.get raises
\* AttributeError, which leaves send_normal_message
SendExtractRaises ==
    /\ s_pc = "resolved"
    /\ msg.cfg.k = "nondict"
    /\ s_pc' = "raised"
    /\ UNCHANGED <<sendIn, chat_id, dest, loopVars, notSend>>

\* lines 52-58: reply target and payloads; an empty payload ends the send
SendPrepare ==
    /\ s_pc = "resolved"
    /\ msg.cfg.k # "nondict"
    /\ reply_to' = ExtractReply(seg, msg.cfg, reply_cfg)
    /\ payloads' = RecursivelyFlatten(seg)
    /\ s_i' = 1
    /\ s_pc' = IF RecursivelyFlatten(seg) = <<>> THEN "empty" ELSE "sending"
    /\ UNCHANGED <<sendIn, chat_id, dest, sent_count, calls, notSend>>

\* lines 79-81: a segment of a type that has no send is skipped
SendSkip ==
    /\ s_pc = "sending"
    /\ s_i <= Len(payloads)
    /\ payloads[s_i].type \notin SupportedTypes
    /\ s_i' = s_i + 1
    /\ UNCHANGED <<s_pc, sendIn, chat_id, dest, reply_to, payloads, sent_count,
                   calls, notSend>>

\* lines 65-66: reply_to after the send of a text segment ended with out; an
\* exception raised by send_text skips line 66
ReplyAfterText(reply, out) == IF out = "exc" THEN reply ELSE None

\* lines 64-78: the reply target handed to the send of a segment of this type
ReplyArg(type, reply) == IF type = "text" THEN reply ELSE None

\* lines 62-86 without the try of line 62: an exception raised by the send
\* leaves send_normal_message
SendSegmentUnguarded(out) ==
    /\ s_pc = "sending"
    /\ s_i <= Len(payloads)
    /\ payloads[s_i].type \in SupportedTypes
    /\ LET sg == payloads[s_i]
       IN  /\ calls' = Append(calls, [type |-> sg.type, data |-> sg.data,
                                      reply |-> ReplyArg(sg.type, reply_to)])
           /\ reply_to' = IF sg.type = "text" THEN ReplyAfterText(reply_to, out)
                          ELSE reply_to
    /\ sent_count' = IF out = "ok" THEN sent_count + 1 ELSE sent_count
    /\ s_i' = IF out = "exc" THEN s_i ELSE s_i + 1
    /\ s_pc' = IF out = "exc" THEN "raised" ELSE s_pc
    /\ UNCHANGED <<sendIn, chat_id, dest, payloads, notSend>>

\* lines 62-86 for a segment that has a send: the send returns an ok result
\* ("ok"), returns a result that is not ok or no dict ("notok"), or raises ("exc")
SendSegment(out) ==
    /\ s_pc = "sending"
    /\ s_i <= Len(payloads)
    /\ payloads[s_i].type \in SupportedTypes
    /\ LET sg == payloads[s_i]
       IN  /\ calls' = Append(calls, [type |-> sg.type, data |-> sg.data,
                                      reply |-> ReplyArg(sg.type, reply_to)])
           /\ reply_to' = IF sg.type = "text" THEN ReplyAfterText(reply_to, out)
                          ELSE reply_to
    /\ sent_count' = IF out = "ok" THEN sent_count + 1 ELSE sent_count
    /\ s_i' = s_i + 1
    /\ UNCHANGED <<s_pc, sendIn, chat_id, dest, payloads, notSend>>

\* the for loop is exhausted: lines 88-89 and the return
SendFinish ==
    /\ s_pc = "sending"
    /\ s_i > Len(payloads)
    /\ s_pc' = "done"
    /\ UNCHANGED <<sendIn, chat_id, dest, loopVars, notSend>>

NextSend ==
    \/ SendNoSender
    \/ SendNoDestination
    \/ SendResolve
    \/ SendExtractRaises
    \/ SendPrepare
    \/ SendSkip
    \/ \E out \in {"ok", "notok", "exc"} : SendSegment(out)
    \/ SendFinish

SpecSend == InitSend /\ [][NextSend]_vars

\* messages without group and hint, to user 1 or to nobody
DispatchMessages ==
    {m \in Messages : /\ m.cfg \in {[k |-> "dict", hint |-> NoneId],
                                     [k |-> "nondict", hint |-> NoneId]}
                      /\ m.group = NoInfo
                      /\ m.user \in {NoInfo, [t |-> "int", v |-> 1]}}

\* the same handler over every message_segment and reply_message_id
InitDispatch ==
    /\ dedup = DeduperNew(1)
    /\ DedupIdle
    /\ ClientIdle
    /\ PollIdle
    /\ StateIdle
    /\ SendInputs(DispatchMessages, Trees, ReplyRaws)
    /\ (~msg.sender \/ msg.user = NoInfo \/ msg.cfg.k = "nondict") =>
            seg = Leaf("text", 1)
    /\ SendStart

SpecDispatch == InitDispatch /\ [][NextSend]_vars

\* the paths (child indices from the root) of the leaves of a segment tree
RECURSIVE Paths(_)
Paths(t) ==
    IF t.type = "seglist"
    THEN UNION {{<<i>> \o q : q \in Paths(t.kids[i])} : i \in 1..Len(t.kids)}
    ELSE {<<>>}

\* the segment at path q
RECURSIVE SegAt(_, _)
SegAt(t, q) == IF q = <<>> THEN t ELSE SegAt(t.kids[Head(q)], Tail(q))

\* q comes before r, depth first and left to right
RECURSIVE Before(_, _)
Before(q, r) ==
    /\ q # <<>> /\ r # <<>>
    /\ \/ Head(q) < Head(r)
       \/ Head(q) = Head(r) /\ Before(Tail(q), Tail(r))

\* position of the leaf at path q among the leaves of t
Rank(t, q) == Cardinality({r \in Paths(t) : Before(r, q)}) + 1

\* the segments the for loop has passed that have a send
Attempted == SelectSeq(SubSeq(payloads, 1, s_i - 1), LAMBDA x : x.type \in SupportedTypes)

(***************************************************************************)
(* C12  payloads holds exactly the leaves of the segment tree, each once,  *)
(* in depth-first, left-to-right order, no seglist among them, and the     *)
(* sends are issued for them in that order.                                *)
(***************************************************************************)
FlattenDepthFirst ==
    s_pc \in {"sending", "empty", "done"} =>
        /\ Len(payloads) = Cardinality(Paths(seg))
        /\ \A q \in Paths(seg) : payloads[Rank(seg, q)] = SegAt(seg, q)
        /\ \A j \in 1..Len(payloads) : payloads[j].type # "seglist"
        /\ Len(calls) = Len(Attempted)
        /\ \A j \in 1..Len(calls) :
                calls[j].type = Attempted[j].type /\ calls[j].data = Attempted[j].data

\* [text, [image, text]] was flattened to [text, image, text] and sent in that order
FlattenWitness ==
    /\ s_pc = "done"
    /\ seg = SegList(<<Leaf("text", 1), SegList(<<Leaf("image", 1), Leaf("text", 2)>>)>>)
    /\ payloads = <<Leaf("text", 1), Leaf("image", 1), Leaf("text", 2)>>
    /\ Len(calls) = 3
    /\ calls[1].type = "text" /\ calls[1].data = 1
    /\ calls[2].type = "image"
    /\ calls[3].type = "text" /\ calls[3].data = 2

\* positions in calls of the sends of text segments
TextCalls == {j \in 1..Len(calls) : calls[j].type = "text"}

(***************************************************************************)
(* C13  of the sends issued for one message, only the send of the first    *)
(* text segment carries the reply target; the send of every later text     *)
(* segment and of every segment that is no text carries none, whether the  *)
(* first text send returned ok, returned a failure or raised.              *)
(***************************************************************************)
ReplyOnFirstTextOnly ==
    \A j \in 1..Len(calls) :
        calls[j].reply # None =>
            /\ calls[j].type = "text"
            /\ \A k \in TextCalls : k >= j

\* the segments of payloads that have a send, in payload order
Supported == SelectSeq(payloads, LAMBDA x : x.type \in SupportedTypes)

\* the send issued for segment sg is the newest entry of calls
SendIssued(sg) ==
    /\ Len(calls') = Len(calls) + 1
    /\ SubSeq(calls', 1, Len(calls)) = calls
    /\ calls'[Len(calls')].type = sg.type
    /\ calls'[Len(calls')].data = sg.data

\* one pass of the for loop of lines 61-86 over payloads[s_i]
LoopPass ==
    /\ s_pc' = "sending"
    /\ s_i' = s_i + 1
    /\ payloads' = payloads
    /\ IF payloads[s_i].type \in SupportedTypes
       THEN SendIssued(payloads[s_i])
       ELSE calls' = calls /\ sent_count' = sent_count

(***************************************************************************)
(* C21  the segments of one message are passed one at a time, in payload   *)
(* order: a pass over a supported segment issues exactly one send for it,  *)
(* a pass over an unsupported one issues none, and whatever the send did   *)
(* (ok, not ok, exception) the loop goes on to the next segment; sent_count*)
(* only grows, by at most one a pass; when the loop has ended every        *)
(* supported segment was attempted exactly once, in order.                 *)
(***************************************************************************)
SegmentFailureIsolation ==
    /\ [](s_pc = "done" =>
            /\ Len(calls) = Len(Supported)
            /\ \A j \in 1..Len(calls) :
                    calls[j].type = Supported[j].type /\ calls[j].data = Supported[j].data
            /\ sent_count <= Len(calls))
    /\ [][/\ (s_pc = "sending" /\ s_i <= Len(payloads)) => LoopPass
          /\ (s_pc = "sending" /\ s_i > Len(payloads)) =>
                (s_pc' = "done" /\ calls' = calls /\ sent_count' = sent_count)
          /\ sent_count' \in {sent_count, sent_count + 1}]_vars

\* [text, reply, image]: both sends failed (none counted), the reply segment got
\* no send, and the image was still attempted after the failed text
SegmentFailureWitness ==
    /\ s_pc = "done"
    /\ payloads = <<Leaf("text", 1), Leaf("reply", 1), Leaf("image", 1)>>
    /\ Len(calls) = 2
    /\ calls[1].type = "text"
    /\ calls[2].type = "image"
    /\ sent_count = 0

\* the message carries an explicit group identity
HasGroup(m) ==
    \/ m.group.t \in {"str", "pfx", "txt"}
    \/ m.group.t = "int" /\ m.group.v # 0

\* the message carries a telegram_chat_id routing hint
HasHint(m) == m.cfg.k = "dict" /\ m.cfg.hint.t # "none"

(***************************************************************************)
(* C10 (as stated)  a message with an explicit group identity is sent to   *)
(* that group, whatever user identity or routing hint it also carries.     *)
(***************************************************************************)
GroupFirst ==
    (s_pc \in {"resolved", "no_dest"} /\ HasGroup(msg)) =>
        /\ s_pc = "resolved"
        /\ dest = NormalizeChatId(msg.group)

(***************************************************************************)
(* C10 (amended)  a routing hint, when present, is the destination; a      *)
(* message with an explicit group identity and no routing hint is sent to  *)
(* that group, whatever user identity it also carries.                     *)
(***************************************************************************)
GroupFirstWithoutHint ==
    /\ (s_pc \in {"resolved", "no_dest"} /\ HasHint(msg)) =>
            /\ s_pc = "resolved"
            /\ chat_id = msg.cfg.hint
            /\ dest = NormalizeChatId(msg.cfg.hint)
    /\ (s_pc \in {"resolved", "no_dest"} /\ ~HasHint(msg) /\ HasGroup(msg)) =>
            /\ s_pc = "resolved"
            /\ chat_id = msg.group
            /\ dest = NormalizeChatId(msg.group)

\* group "telegram:2" and user 1, no hint: the destination is the integer 2
GroupFirstWitness ==
    /\ s_pc = "resolved"
    /\ ~HasHint(msg)
    /\ msg.group = [t |-> "pfx", v |-> MaxChat]
    /\ msg.user = [t |-> "int", v |-> 1]
    /\ dest = [t |-> "int", v |-> MaxChat]

(***************************************************************************)
(* SpecState: TelegramRuntimeState, src/src/runtime_state.py, under        *)
(* arbitrary record_message calls; get_chat_id_by_message_id reads the     *)
(* state and is the operator GetChatIdByMessageId.                         *)
(*                                                                         *)
(* The OrderedDict _message_chat_index maps keys to None, so it is the     *)
(* sequence of its keys, in insertion order.                               *)
(***************************************************************************)
ChatIds == {1, 2}
MsgIds == 1..MaxMsg
ChatTypes == {"private", "group", "supergroup", "channel"}

\* OrderedDict: d[key] = None: a new key goes to the end, an old one stays
OrderedDictSet(d, key) == IF key \in Range(d) THEN d ELSE Append(d, key)

\* OrderedDict.move_to_end(key)
MoveToEnd(d, key) == Append(SelectSeq(d, LAMBDA k : k # key), key)

\* lines 17-21 without the move_to_end of line 19
IndexRecordNoMove(idx, key) ==
    LET d == OrderedDictSet(idx, key)
    IN  IF Len(d) > MESSAGE_CHAT_INDEX_LIMIT THEN Tail(d) ELSE d

\* lines 17-21 of record_message: the index after the call
IndexRecord(idx, key) ==
    LET d == MoveToEnd(OrderedDictSet(idx, key), key)
    IN  IF Len(d) > MESSAGE_CHAT_INDEX_LIMIT THEN Tail(d) ELSE d

\* utils.is_group_chat, lines 31-32
IsGroupChat(chat_type) == chat_type \in {"group", "supergroup"}

\* lines 23-24 with the test "not is_group_chat(chat_type)"
LastPrivateRecordNonGroup(last, chat, chat_type) ==
    IF ~IsGroupChat(chat_type) THEN Some(chat) ELSE last

\* lines 23-24 of record_message: _last_private_chat_id after the call
LastPrivateRecord(last, chat, chat_type) ==
    IF chat_type = "private" THEN Some(chat) ELSE last

\* get_last_private_chat_id, lines 32-33
GetLastPrivateChatId == last_private

\* lines 26-30 without reversed(): the keys are scanned oldest first
RECURSIVE GetChatIdOldestFirst(_, _)
GetChatIdOldestFirst(idx, message_id) ==
    IF idx = <<>> THEN None
    ELSE IF Head(idx)[2] = message_id THEN Some(Head(idx)[1])
    ELSE GetChatIdOldestFirst(Tail(idx), message_id)

\* get_chat_id_by_message_id, lines 26-30: the keys are scanned newest first
RECURSIVE GetChatIdByMessageId(_, _)
GetChatIdByMessageId(idx, message_id) ==
    IF idx = <<>> THEN None
    ELSE IF idx[Len(idx)][2] = message_id THEN Some(idx[Len(idx)][1])
    ELSE GetChatIdByMessageId(SubSeq(idx, 1, Len(idx) - 1), message_id)

InitState ==
    /\ dedup = DeduperNew(1)
    /\ DedupIdle
    /\ PollIdle
    /\ SendIdle
    /\ StateIdle
    /\ ClientIdle

\* record_message(chat, message_id, chat_type), lines 16-24
RecordMessage(chat, message_id, chat_type) ==
    /\ Len(r_log) < MaxRecords
    /\ index' = IndexRecord(index, <<chat, message_id>>)
    /\ last_private' = LastPrivateRecord(last_private, chat, chat_type)
    /\ r_log' = Append(r_log, <<chat, message_id>>)
    /\ r_type' = chat_type
    /\ UNCHANGED <<bot_id, notState>>

NextState ==
    \E chat \in ChatIds, message_id \in MsgIds, chat_type \in ChatTypes :
        RecordMessage(chat, message_id, chat_type)

SpecState == InitState /\ [][NextState]_vars

\* the n distinct keys recorded last in log, the least recently recorded first
RECURSIVE MostRecentDistinct(_, _, _)
MostRecentDistinct(log, n, acc) ==
    IF log = <<>> \/ Len(acc) = n THEN acc
    ELSE LET k == log[Len(log)]
             rest == SubSeq(log, 1, Len(log) - 1)
         IN  IF k \in Range(acc) THEN MostRecentDistinct(rest, n, acc)
             ELSE MostRecentDistinct(rest, n, <<k>> \o acc)

\* keys that were recorded and are no longer in the index
Evicted == Range(r_log) \ Range(index)

(***************************************************************************)
(* C15  the index never holds more than its capacity; it holds the keys    *)
(* recorded most recently (a re-recorded key counts as recent), so a       *)
(* record of a new key into a full index evicts the least recently         *)
(* recorded one; get_chat_id_by_message_id of an evicted message id (one   *)
(* with no live key left) returns None.                                    *)
(***************************************************************************)
IndexEviction ==
    /\ Len(index) <= MESSAGE_CHAT_INDEX_LIMIT
    /\ index = MostRecentDistinct(r_log, MESSAGE_CHAT_INDEX_LIMIT, <<>>)
    /\ \A k \in Evicted :
            (\A j \in Range(index) : j[2] # k[2]) =>
                GetChatIdByMessageId(index, k[2]) = None

\* capacity + 1 distinct message ids recorded, with a re-record before the last:
\* the least recently recorded key is gone and its lookup returns None
IndexEvictionWitness ==
    /\ Len(r_log) = MESSAGE_CHAT_INDEX_LIMIT + 2
    /\ Len(index) = MESSAGE_CHAT_INDEX_LIMIT
    /\ r_log[1] = r_log[Len(r_log) - 1]
    /\ Cardinality({k[2] : k \in Range(r_log)}) = MESSAGE_CHAT_INDEX_LIMIT + 1
    /\ r_log[1] \in Range(index)
    /\ r_log[2] \in Evicted
    /\ GetChatIdByMessageId(index, r_log[2][2]) = None
    /\ GetChatIdByMessageId(index, r_log[1][2]) = Some(r_log[1][1])

\* the chat_id of the newest record_message call
LastRecordedChat == r_log[Len(r_log)][1]

(***************************************************************************)
(* C23 (as stated)  every record_message call for a conversation whose     *)
(* type is neither group nor supergroup overwrites the last private        *)
(* conversation with the chat_id of the call, and a call for a group or    *)
(* supergroup leaves it alone; get_last_private_chat_id returns it.        *)
(***************************************************************************)
LastPrivateOnNonGroup ==
    /\ [](r_log = <<>> => GetLastPrivateChatId = None)
    /\ [][r_log' # r_log =>
            GetLastPrivateChatId' =
                IF ~IsGroupChat(r_type') THEN Some(LastRecordedChat')
                ELSE GetLastPrivateChatId]_vars

(***************************************************************************)
(* C23 (amended)  every record_message call whose type is "private"        *)
(* overwrites the last private conversation with the chat_id of the call,  *)
(* and a call of any other type (group, supergroup, channel) leaves it     *)
(* alone; get_last_private_chat_id returns it, None before the first       *)
(* private call.                                                           *)
(***************************************************************************)
LastPrivateOnPrivate ==
    /\ [](r_log = <<>> => GetLastPrivateChatId = None)
    /\ [][r_log' # r_log =>
            GetLastPrivateChatId' =
                IF r_type' = "private" THEN Some(LastRecordedChat')
                ELSE GetLastPrivateChatId]_vars

\* a private message of chat 1, then two messages of chat 2 that are not
\* private, the second a channel post: the last private conversation is still chat 1
LastPrivateWitness ==
    /\ Len(r_log) = 3
    /\ r_log[1][1] = 1
    /\ r_log[2][1] = 2
    /\ r_log[3][1] = 2
    /\ r_type = "channel"
    /\ GetLastPrivateChatId = Some(1)

\* the record_message calls whose pair has message id m and is in the index
LiveRecords(m) ==
    {j \in 1..Len(r_log) : r_log[j][2] = m /\ r_log[j] \in Range(index)}

(***************************************************************************)
(* C24  the index holds each (chat_id, message_id) pair at most once, and  *)
(* pairs of different conversations with one message id side by side; for  *)
(* every message id m, get_chat_id_by_message_id(m) is the chat_id of the  *)
(* newest record_message call among those whose pair has message id m and  *)
(* is still in the index, and None when there is none.                     *)
(***************************************************************************)
IndexLookupAcrossChats ==
    /\ \A i, j \in 1..Len(index) : index[i] = index[j] => i = j
    /\ \A m \in MsgIds :
            GetChatIdByMessageId(index, m) =
                IF LiveRecords(m) = {} THEN None
                ELSE Some(r_log[SetMax(LiveRecords(m))][1])

\* message 1 recorded for chat 1, then for chat 2, then for chat 1 again: both
\* pairs are in the index and the lookup of message 1 gives chat 1
IndexLookupWitness ==
    /\ r_log = <<<<1, 1>>, <<2, 1>>, <<1, 1>>>>
    /\ index = <<<<2, 1>>, <<1, 1>>>>
    /\ GetChatIdByMessageId(index, 1) = Some(1)

(***************************************************************************)
(* SpecRoute: send_normal_message for messages without group and routing   *)
(* hint, with the runtime state as record_message and set_bot_id left it.  *)
(***************************************************************************)
\* the message carries no group identity and no routing hint
RouteMessages == {m \in Messages : ~HasHint(m) /\ ~HasGroup(m)}

\* the runtime state after set_bot_id and at most one record_message
RouteState ==
    /\ bot_id \in {None} \cup {Some(b) : b \in 1..MaxChat}
    /\ \/ /\ index = <<>>
          /\ last_private = None
          /\ r_log = <<>>
          /\ r_type = "none"
       \/ \E chat \in ChatIds, message_id \in MsgIds, chat_type \in {"private", "group"} :
            /\ index = IndexRecord(<<>>, <<chat, message_id>>)
            /\ last_private = LastPrivateRecord(None, chat, chat_type)
            /\ r_log = <<<<chat, message_id>>>>
            /\ r_type = chat_type

InitRoute ==
    /\ dedup = DeduperNew(1)
    /\ DedupIdle
    /\ ClientIdle
    /\ PollIdle
    /\ RouteState
    /\ SendInputs(RouteMessages, {Leaf("text", 1), Leaf("reply", 1)},
                  {NoneId, [t |-> "int", v |-> 2]})
    /\ SendStart

SpecRoute == InitRoute /\ [][NextSend]_vars

\* the user identity of the message is the bot's own id
UserIsBot(m) ==
    /\ bot_id # None
    /\ Truthy(m.user)
    /\ NormalizeChatId(m.user) = [t |-> "int", v |-> bot_id[1]]

\* the reply target of the message, as _extract_reply finds it
ReplyTarget ==
    IF msg.cfg.k = "nondict" THEN None ELSE ExtractReply(seg, msg.cfg, reply_cfg)

\* the conversation the index holds for the reply target
IndexedChat ==
    IF ReplyTarget = None THEN None ELSE GetChatIdByMessageId(index, ReplyTarget[1])

(***************************************************************************)
(* C11  a message without group identity and routing hint whose user       *)
(* identity is the bot's own id is sent to the conversation the index      *)
(* holds for its reply target; without such an entry to the last private   *)
(* conversation if one is set; otherwise to the user id itself.            *)
(***************************************************************************)
BotIdentityRouting ==
    (s_pc \in {"resolved", "no_dest"} /\ UserIsBot(msg)) =>
        /\ s_pc = "resolved"
        /\ dest = IF IndexedChat # None THEN [t |-> "int", v |-> IndexedChat[1]]
                  ELSE IF last_private # None THEN [t |-> "int", v |-> last_private[1]]
                  ELSE NormalizeChatId(msg.user)

\* the message carries a user identity
HasUser(m) ==
    \/ m.user.t \in {"str", "pfx", "txt"}
    \/ m.user.t = "int" /\ m.user.v # 0

\* the message carries no group identity, no user identity and no routing hint
NoIdentity(m) == ~HasHint(m) /\ ~HasGroup(m) /\ ~HasUser(m)

(***************************************************************************)
(* C22  for a message without group identity, user identity and routing    *)
(* hint send_normal_message returns at line 46 (or at line 27 when no      *)
(* sender is installed): no destination is chosen, no payload is built, no *)
(* send is issued, and bot id, conversation index and last private         *)
(* conversation keep their values.                                         *)
(***************************************************************************)
RoutingFailureAborts ==
    /\ [](NoIdentity(msg) =>
            /\ s_pc \in {"start", "no_sender", "no_dest"}
            /\ (msg.sender /\ s_pc # "start") => s_pc = "no_dest"
            /\ dest = NoneId
            /\ payloads = <<>>
            /\ calls = <<>>
            /\ sent_count = 0)
    /\ [][NoIdentity(msg) =>
            /\ index' = index
            /\ last_private' = last_private
            /\ bot_id' = bot_id]_vars

\* a message with a user_info whose user_id is 0 was given up with a non-empty
\* index and a last private conversation in the runtime state
RoutingFailureWitness ==
    /\ s_pc = "no_dest"
    /\ msg.sender
    /\ msg.user = [t |-> "int", v |-> 0]
    /\ msg.group = NoInfo
    /\ calls = <<>>
    /\ index # <<>>
    /\ last_private # None

(***************************************************************************)
(* SpecClient: TelegramClient.send_message, src/src/telegram_client.py     *)
(* lines 84-163, against an arbitrary remote.                              *)
(*                                                                         *)
(* A text is a sequence of characters, " " (white space) or "x" (any       *)
(* other).  A description is a sequence of phrases, each written in lower  *)
(* case or not.  A response body is a JSON object with its "ok" ("true",   *)
(* "false" or "absent") and "description" (k = "dict"), JSON that is no    *)
(* object ("nondict"), text that is no JSON ("nonjson"), or bytes that do  *)
(* not decode in the charset of the response ("undecodable").              *)
(***************************************************************************)
Texts == SeqsUpTo({" ", "x"}, MaxTextLen)

Phrases == {"message text is empty", "chat not found"}
Words == [w : Phrases, up : BOOLEAN]
Descs == SeqsUpTo(Words, MaxWords)

Bodies ==
    [k : {"dict"}, ok : {"true", "false", "absent"}, desc : Descs]
        \cup [k : {"nondict", "nonjson", "undecodable"}, ok : {"absent"}, desc : {<<>>}]

\* str.strip(): leading and trailing white space removed
RECURSIVE StripLeft(_)
StripLeft(t) == IF t # <<>> /\ Head(t) = " " THEN StripLeft(Tail(t)) ELSE t

RECURSIVE StripRight(_)
StripRight(t) ==
    IF t # <<>> /\ t[Len(t)] = " " THEN StripRight(SubSeq(t, 1, Len(t) - 1)) ELSE t

Strip(t) == StripRight(StripLeft(t))

\* str.lower()
Lower(desc) == [i \in 1..Len(desc) |-> [desc[i] EXCEPT !.up = FALSE]]

\* "phrase" in desc, for a lower-case phrase
Contains(desc, phrase) == \E i \in 1..Len(desc) : desc[i] = [w |-> phrase, up |-> FALSE]

\* the payload built at lines 147-153 or at line 156
Synthetic(description) ==
    [ok |-> "false", desc |-> <<[w |-> description, up |-> FALSE]>>, synthetic |-> TRUE]

\* _read_json_dict, lines 142-156: the payload returned, or raised when
\* resp.text() of line 146 raises as resp.json() did (the body does not decode)
ReadJsonDict(body) ==
    CASE body.k = "dict" ->
            [raised |-> FALSE,
             data |-> [ok |-> body.ok, desc |-> body.desc, synthetic |-> FALSE]]
      [] body.k = "nondict" ->
            [raised |-> FALSE, data |-> Synthetic("non-dict json response")]
      [] body.k = "nonjson" ->
            [raised |-> FALSE, data |-> Synthetic("invalid json response")]
      [] body.k = "undecodable" ->
            [raised |-> TRUE, data |-> <<>>]

\* _is_message_text_empty_error, lines 158-160, without the lower()
IsMessageTextEmptyErrorCaseSensitive(data) ==
    Contains(data.desc, "message text is empty")

\* _is_message_text_empty_error, lines 158-160
IsMessageTextEmptyError(data) ==
    Contains(Lower(data.desc), "message text is empty")

\* _has_visible_text, lines 162-163
HasVisibleText(text) == Strip(text) # <<>>

\* data.get("ok") as a truth value
IsOk(data) == data.ok = "true"

InitClient ==
    /\ dedup = DeduperNew(1)
    /\ DedupIdle
    /\ PollIdle
    /\ SendIdle
    /\ StateIdle
    /\ c_pc = "start"
    /\ c_text \in Texts
    /\ c_reply \in {None, Some(1)}
    /\ c_reqs = <<>>
    /\ c_bodies = <<>>
    /\ c_first = <<>>
    /\ c_ret = <<>>

\* lines 85-140 up to the second post: the JSON request is answered with body
PostJson(body) ==
    /\ c_pc = "start"
    /\ c_reqs' = Append(c_reqs, [enc |-> "json", reply |-> c_reply])
    /\ c_bodies' = Append(c_bodies, body)
    /\ LET r == ReadJsonDict(body)
       IN  IF r.raised
           THEN /\ c_pc' = "raised"
                /\ UNCHANGED <<c_first, c_ret>>
           ELSE /\ c_first' = r.data
                /\ IF IsOk(r.data)
                   THEN c_pc' = "returned" /\ c_ret' = r.data
                   ELSE IF IsMessageTextEmptyError(r.data) /\ HasVisibleText(c_text)
                   THEN c_pc' = "retry" /\ UNCHANGED c_ret
                   ELSE c_pc' = "returned" /\ c_ret' = r.data
    /\ UNCHANGED <<c_text, c_reply, notClient>>

\* lines 92-97: the post fails in the network and raises
PostJsonFails ==
    /\ c_pc = "start"
    /\ c_reqs' = Append(c_reqs, [enc |-> "json", reply |-> c_reply])
    /\ c_pc' = "raised"
    /\ UNCHANGED <<c_text, c_reply, c_bodies, c_first, c_ret, notClient>>

\* lines 113-138: the form request is answered with body
PostForm(body) ==
    /\ c_pc = "retry"
    /\ c_reqs' = Append(c_reqs, [enc |-> "form", reply |-> c_reply])
    /\ c_bodies' = Append(c_bodies, body)
    /\ LET r == ReadJsonDict(body)
       IN  IF r.raised
           THEN c_pc' = "raised" /\ UNCHANGED c_ret
           ELSE c_pc' = "returned" /\ c_ret' = r.data
    /\ UNCHANGED <<c_text, c_reply, c_first, notClient>>

\* lines 117-121: the post of the retry fails in the network and raises
PostFormFails ==
    /\ c_pc = "retry"
    /\ c_reqs' = Append(c_reqs, [enc |-> "form", reply |-> c_reply])
    /\ c_pc' = "raised"
    /\ UNCHANGED <<c_text, c_reply, c_bodies, c_first, c_ret, notClient>>

NextClient ==
    \/ \E body \in Bodies : PostJson(body)
    \/ PostJsonFails
    \/ \E body \in Bodies : PostForm(body)
    \/ PostFormFails

SpecClient == InitClient /\ [][NextClient]_vars

\* a retry is or was made
RetryMade == c_pc = "retry" \/ Len(c_reqs) = 2

\* the JSON response was read, is not ok, names the empty-text error in any
\* case of letters, and the text has a character that is no white space
RetryDue ==
    /\ c_first # <<>>
    /\ c_first.ok # "true"
    /\ \E i \in 1..Len(c_first.desc) : c_first.desc[i].w = "message text is empty"
    /\ \E i \in 1..Len(c_text) : c_text[i] # " "

(***************************************************************************)
(* C14  the first request of a send_message call is the JSON request; a    *)
(* form-encoded retry is made, once, exactly when the JSON response is not *)
(* ok, its description contains "message text is empty" in any case of     *)
(* letters and the text is not blank; a call posts at most two requests.   *)
(***************************************************************************)
RetryOnceOnEmptyText ==
    /\ Len(c_reqs) <= 2
    /\ Len(c_reqs) >= 1 => c_reqs[1].enc = "json"
    /\ Len(c_reqs) = 2 => c_reqs[2].enc = "form" /\ c_reqs[2].reply = c_reqs[1].reply
    /\ c_pc \in {"retry", "returned", "raised"} => (RetryMade <=> RetryDue)

\* "MESSAGE TEXT IS EMPTY" answered to the text " x": the retry was made and
\* its ok response returned
RetryWitness ==
    /\ c_pc = "returned"
    /\ Len(c_reqs) = 2
    /\ c_text = <<" ", "x">>
    /\ c_first.ok = "false"
    /\ c_first.desc = <<[w |-> "message text is empty", up |-> TRUE]>>
    /\ c_ret.ok = "true"

\* the payload read from the body of the request that was posted last
LastPayload == ReadJsonDict(c_bodies[Len(c_bodies)]).data

(***************************************************************************)
(* C16  when every request of a send_message call was answered, the call   *)
(* returns a payload and does not raise: the JSON response when it is ok   *)
(* or no retry was made, the retry's response when a retry was made; a     *)
(* body that is no JSON or no JSON object is returned as a payload with    *)
(* ok = false.                                                             *)
(***************************************************************************)
SendAlwaysReturnsPayload ==
    (c_pc \in {"returned", "raised"} /\ Len(c_bodies) = Len(c_reqs)) =>
        /\ c_pc = "returned"
        /\ c_ret = (IF Len(c_reqs) = 2 THEN LastPayload ELSE c_first)
        /\ c_bodies[Len(c_bodies)].k # "dict" => c_ret.ok = "false"

=============================================================================
